---- MODULE Spec2Model ----
(***************************************************************************)
(* A model of audiothek2rss.py: option checking, program-set selection     *)
(* and pagination, the per-program episode query, feed serialisation and   *)
(* the file-name template.                                                 *)
(*                                                                         *)
(* Python values are encoded as follows.                                   *)
(*   - str: a sequence of one-character strings (<<"%","d">> is "%d");     *)
(*     opaque texts (URLs, search terms) are TLA+ strings.                 *)
(*   - an optional value x: the set {} for None and {v} for the value v.   *)
(*   - an exception that ends the run: pc = "error".                       *)
(***************************************************************************)
EXTENDS Integers, Sequences, FiniteSets, TLC

VARIABLES
    \* ---- the file-name template (getOptions 297, 308-314; main 234)
    tplPc,        \* "idle" | "parsed" | "checked" | "filled" | "failed"
    tplRaw,       \* options.output as argparse returned it
    tplOutput,    \* options.output after the value checks
    tplId,        \* int(programSet.id) handed to the template
    tplName,      \* outputFileName
    \* ---- one text on its way through toXML, writeRSS and an XML parser
    escPc,        \* "idle" | "model" | "element" | "file" | "parsed"
    escField,     \* which element carries the text
    escText,      \* the title / synopsis held by the model object
    escElement,   \* the element's .text after toXML
    escFile,      \* the characters written between the element's tags
    escParsed,    \* the text content an XML parser reads back
    \* ---- one AudiothekProgramSet: __init__, queryEpisodes, toXML
    psPc,         \* "idle" | "constructed" | "queried" | "serialised"
    ps,           \* the AudiothekProgramSet
    psData,       \* the programSet response queryEpisodes read
    psChannel,    \* the channel element toXML returned
    \* ---- one run of main(getOptions(argv))
    pc,           \* the position of the run
    exc,          \* the uncaught exception that ended it ("" if none)
    argv,         \* the options as argparse returned them
    options,      \* the options object
    queries,      \* the queries handed to executeQuery, with what came back
    categories,   \* getCategories' result
    filter,       \* getProgramSets' filter clause
    totalCount,   \* getProgramSets' totalCount
    offset,       \* getProgramSets' offset
    programSets,  \* queryContent's result, the list main iterates
    idx,          \* the position of main's for loop in programSets
    count,        \* main's count
    jinjaVars,    \* main's jinjaVars
    files,        \* the feed files in the rss directory
    htmlIndex     \* what the template is rendered with (None: no index)

tplVars == <<tplPc, tplRaw, tplOutput, tplId, tplName>>
escVars == <<escPc, escField, escText, escElement, escFile, escParsed>>
psVars == <<psPc, ps, psData, psChannel>>
runVars == <<pc, exc, argv, options, queries, categories, filter, totalCount, offset,
             programSets, idx, count, jinjaVars, files, htmlIndex>>

-----------------------------------------------------------------------------
(* Bounds *)

MaxTplLen == 4      \* longest enumerated file-name template
MaxId == 2          \* program ids are 1..MaxId
MaxTextLen == 3     \* longest enumerated title / description

-----------------------------------------------------------------------------
(* Python values *)

None == {}
Some(v) == {v}
IsNone(x) == x = {}
Get(x) == CHOOSE v \in x : TRUE

RECURSIVE SeqsUpTo(_, _)
\* every sequence over S of length 0..n
SeqsUpTo(S, n) ==
    IF n = 0 THEN {<<>>}
    ELSE LET shorter == SeqsUpTo(S, n - 1)
         IN  shorter \cup {Append(s, c) : s \in {t \in shorter : Len(t) = n - 1}, c \in S}

\* s[i:] and s[:i] with a 0-based Python index i
From(s, i) == SubSeq(s, i + 1, Len(s))
UpTo(s, i) == SubSeq(s, 1, i)

\* sub in s
Contains(s, sub) ==
    \E i \in 1..(Len(s) - Len(sub) + 1) : SubSeq(s, i, i + Len(sub) - 1) = sub

\* s.rfind(c) for a single character c: 0-based, -1 when absent
RFind(s, c) ==
    LET hits == {i \in 1..Len(s) : s[i] = c}
    IN  IF hits = {} THEN -1 ELSE (CHOOSE i \in hits : \A j \in hits : j <= i) - 1

\* str.find(c): first occurrence, 0-based, -1 when absent
Find(s, c) ==
    LET hits == {i \in 1..Len(s) : s[i] = c}
    IN  IF hits = {} THEN -1 ELSE (CHOOSE i \in hits : \A j \in hits : i <= j) - 1

\* str(n) for an integer, as a sequence of characters
RECURSIVE Digits(_)
Digits(n) ==
    IF n < 10 THEN <<ToString(n)>> ELSE Append(Digits(n \div 10), ToString(n % 10))
IntStr(n) == IF n < 0 THEN <<"-">> \o Digits(0 - n) ELSE Digits(n)

-----------------------------------------------------------------------------
(* The % operator of str: fmt % args.                                      *)
(* An argument is [isInt, txt]: whether it is a number, and str(arg).      *)
(* The conversions modelled are those the templates of this model can      *)
(* hold: %%, %s, %d, each with an optional empty precision "."; any other  *)
(* character after "%" is "unsupported format character".                  *)

StrArg(s) == [isInt |-> FALSE, txt |-> s]
IntArg(n) == [isInt |-> TRUE, txt |-> IntStr(n)]

FormatError == [ok |-> FALSE, out |-> <<>>]

RECURSIVE FormatFrom(_, _, _, _, _)
FormatFrom(fmt, i, args, k, out) ==
    IF i > Len(fmt)
    THEN IF k <= Len(args)
         THEN FormatError                      \* not all arguments converted
         ELSE [ok |-> TRUE, out |-> out]
    ELSE IF fmt[i] # "%"
    THEN FormatFrom(fmt, i + 1, args, k, Append(out, fmt[i]))
    ELSE IF i + 1 > Len(fmt)
    THEN FormatError                           \* incomplete format
    ELSE IF fmt[i + 1] = "%"
    THEN FormatFrom(fmt, i + 2, args, k, Append(out, "%"))
    ELSE LET prec == fmt[i + 1] = "."
             j == IF prec THEN i + 2 ELSE i + 1
         IN  IF j > Len(fmt)
             THEN FormatError                  \* incomplete format
             ELSE IF fmt[j] \notin {"d", "s"}
             THEN FormatError                  \* unsupported format character
             ELSE IF k > Len(args)
             THEN FormatError                  \* not enough arguments
             ELSE IF fmt[j] = "d"
             THEN IF args[k].isInt
                  THEN FormatFrom(fmt, j + 1, args, k + 1, out \o args[k].txt)
                  ELSE FormatError             \* %d format: a number is required
             ELSE FormatFrom(fmt, j + 1, args, k + 1,
                             IF prec THEN out ELSE out \o args[k].txt)

PyFormat(fmt, args) == FormatFrom(fmt, 1, args, 1, <<>>)

-----------------------------------------------------------------------------
(* The file-name template *)

\* the default of --output
DefaultOutput ==
    <<"a","r","d","a","u","d","i","o","t","h","e","k","_","%","s","%","d",".","r","s","s">>

Placeholder == <<"%", "d">>

\* a mutant of CorrectOutput: the placeholder goes before the first "."
CorrectOutputFirstDot(output) ==
    IF ~Contains(output, Placeholder)
    THEN LET firstDot == Find(output, ".")
         IN  IF firstDot > -1
             THEN UpTo(output, firstDot) \o Placeholder \o From(output, firstDot)
             ELSE output \o Placeholder
    ELSE output

\* getOptions' check of options.output
CorrectOutput(output) ==
    IF ~Contains(output, Placeholder)
    THEN LET lastDot == RFind(output, ".")
         IN  IF lastDot > -1
             THEN UpTo(output, lastDot) \o Placeholder \o From(output, lastDot)
             ELSE output \o Placeholder
    ELSE output

\* main: options.output % ("", int(programSet.id))
OutputFileName(output, id) == PyFormat(output, <<StrArg(<<>>), IntArg(id)>>)

TplChars == {"%", "d", "s", ".", "_"}
Templates == SeqsUpTo(TplChars, MaxTplLen) \cup {DefaultOutput}
ProgramIds == 1..MaxId

TplIdle ==
    /\ tplPc = "idle" /\ tplRaw = <<>> /\ tplOutput = <<>>
    /\ tplId = 0 /\ tplName = <<>>

TplInit ==
    /\ tplPc = "parsed"
    /\ tplRaw \in Templates
    /\ tplOutput = tplRaw
    /\ tplId = 0
    /\ tplName = <<>>

\* getOptions, lines 308-314
TplGetOptions ==
    /\ tplPc = "parsed"
    /\ tplOutput' = CorrectOutput(tplOutput)
    /\ tplPc' = "checked"
    /\ UNCHANGED <<tplRaw, tplId, tplName>>

\* main, line 234, for a ProgramSet with items
TplFill ==
    /\ tplPc = "checked"
    /\ \E id \in ProgramIds :
        LET r == OutputFileName(tplOutput, id)
        IN  /\ tplId' = id
            /\ tplName' = r.out
            /\ tplPc' = IF r.ok THEN "filled" ELSE "failed"
    /\ UNCHANGED <<tplRaw, tplOutput>>

-----------------------------------------------------------------------------
(* Escaping: html.escape in toXML, ElementTree's writer, an XML parser *)

\* html.escape(s), quote=True
HtmlEscapeChar(c) ==
    CASE c = "&" -> <<"&","a","m","p",";">>
      [] c = "<" -> <<"&","l","t",";">>
      [] c = ">" -> <<"&","g","t",";">>
      [] c = "\"" -> <<"&","q","u","o","t",";">>
      [] c = "'" -> <<"&","#","x","2","7",";">>
      [] OTHER -> <<c>>

RECURSIVE MapChars(_, _)
MapChars(Op(_), s) ==
    IF s = <<>> THEN <<>> ELSE Op(Head(s)) \o MapChars(Op, Tail(s))

HtmlEscape(s) == MapChars(HtmlEscapeChar, s)

\* ElementTree._escape_cdata, applied by tree.write to every text
EscapeCdataChar(c) ==
    CASE c = "&" -> <<"&","a","m","p",";">>
      [] c = "<" -> <<"&","l","t",";">>
      [] c = ">" -> <<"&","g","t",";">>
      [] OTHER -> <<c>>

EscapeCdata(s) == MapChars(EscapeCdataChar, s)

\* the character an entity or character reference stands for ({} if unknown)
EntityChar(name) ==
    CASE name = <<"a","m","p">> -> Some("&")
      [] name = <<"l","t">> -> Some("<")
      [] name = <<"g","t">> -> Some(">")
      [] name = <<"q","u","o","t">> -> Some("\"")
      [] name = <<"a","p","o","s">> -> Some("'")
      [] name = <<"#","x","2","7">> -> Some("'")
      [] name = <<"#","3","9">> -> Some("'")
      [] OTHER -> None

\* the text content a conforming XML parser reads from character data:
\* [ok, out]; a bare "&", an unknown entity or a "<" is not well-formed
RECURSIVE XmlText(_)
XmlText(s) ==
    IF s = <<>> THEN [ok |-> TRUE, out |-> <<>>]
    ELSE IF Head(s) = "<" THEN [ok |-> FALSE, out |-> <<>>]
    ELSE IF Head(s) # "&"
    THEN LET r == XmlText(Tail(s))
         IN  [ok |-> r.ok, out |-> <<Head(s)>> \o r.out]
    ELSE LET semi == Find(s, ";")
         IN  IF semi = -1 THEN [ok |-> FALSE, out |-> <<>>]
             ELSE LET ch == EntityChar(SubSeq(s, 2, semi))
                      r == XmlText(From(s, semi + 1))
                  IN  IF IsNone(ch) THEN [ok |-> FALSE, out |-> <<>>]
                      ELSE [ok |-> r.ok, out |-> <<Get(ch)>> \o r.out]

TextChars == {"<", ">", "&", "\"", "'", "a"}
Texts == SeqsUpTo(TextChars, MaxTextLen) \ {<<>>}
\* the elements whose text toXML escapes: lines 68, 81, 109, 111
TextFields == {"channel.title", "channel.description", "item.title", "item.description"}

EscIdle ==
    /\ escPc = "idle" /\ escField = "" /\ escText = <<>>
    /\ escElement = <<>> /\ escFile = <<>> /\ escParsed = <<>>

EscInit ==
    /\ escPc = "model"
    /\ escField \in TextFields
    /\ escText \in Texts
    /\ escElement = <<>>
    /\ escFile = <<>>
    /\ escParsed = <<>>

\* toXML: element.text = html.escape(text)
EscToXML ==
    /\ escPc = "model"
    /\ escElement' = HtmlEscape(escText)
    /\ escPc' = "element"
    /\ UNCHANGED <<escField, escText, escFile, escParsed>>

\* writeRSS: tree.write serialises the element's text
EscWriteRSS ==
    /\ escPc = "element"
    /\ escFile' = EscapeCdata(escElement)
    /\ escPc' = "file"
    /\ UNCHANGED <<escField, escText, escElement, escParsed>>

\* a standard XML parser reads the written file back
EscParse ==
    /\ escPc = "file"
    /\ XmlText(escFile).ok
    /\ escParsed' = XmlText(escFile).out
    /\ escPc' = "parsed"
    /\ UNCHANGED <<escField, escText, escElement, escFile>>

-----------------------------------------------------------------------------
(* AudiothekProgramSet and AudiothekItem *)

MaxItems == 3       \* most episodes one programSet response holds

\* the title the catalog holds for a program id
ProgramTitle(id) ==
    CASE id = 1 -> <<"b", "<">>
      [] id = 2 -> <<"A", "&">>
      [] id = 3 -> <<"a">>
      [] OTHER -> <<"p">> \o IntStr(id)

\* AudiothekItem.__init__ for one node of an episode response (line 60):
\* the download URL handed in is audios[0].url, null when there is none
AudiothekItem(node) ==
    [title |-> node.title,
     downloadUrl |-> node.url,
     valid |-> ~IsNone(node.url)]

\* AudiothekProgramSet.__init__; imageUrl is a str ("" when not given)
AudiothekProgramSet(id, title, imageUrl) ==
    [id |-> id,
     title |-> title,
     rssPath |-> None,
     audiothekPath |-> None,
     imageUrl |-> IF imageUrl # "" THEN Some(imageUrl) ELSE None,
     items |-> Some(<<>>)]

\* a mutant of hasItems: every program set counts as having items
HasItemsAlways(programSet) == TRUE

\* AudiothekProgramSet.hasItems
HasItems(programSet) == Len(Get(programSet.items)) > 0

RECURSIVE MapSeq(_, _)
MapSeq(Op(_), s) ==
    IF s = <<>> THEN <<>> ELSE <<Op(Head(s))>> \o MapSeq(Op, Tail(s))

\* AudiothekProgramSet.queryEpisodes with the response data; data.image is
\* image.url1X1 as the API sent it
QueryEpisodes(programSet, data) ==
    [programSet EXCEPT
        !.items = Some(Get(programSet.items) \o MapSeq(AudiothekItem, data.nodes)),
        !.imageUrl = data.image,
        !.audiothekPath = Some(data.path)]

\* AudiothekItem.toXML: the item element (the parts the model follows)
ItemToXML(item) ==
    [tag |-> "item",
     title |-> HtmlEscape(item.title),
     enclosure |-> item.downloadUrl]

IsValid(item) == item.valid

\* a mutant of ValidItems: toXML takes every item
ValidItemsAll(items) == items

\* toXML, lines 86-88: the items serialised
ValidItems(items) == SelectSeq(items, IsValid)

\* AudiothekProgramSet.toXML: the channel element
ToXML(programSet) ==
    [title |-> HtmlEscape(programSet.title),
     image |-> IF ~IsNone(programSet.imageUrl)
               THEN Some([url |-> Get(programSet.imageUrl),
                          title |-> HtmlEscape(programSet.title),
                          link |-> programSet.audiothekPath])
               ELSE None,
     items |-> MapSeq(ItemToXML, ValidItems(Get(programSet.items)))]

\* whether tree.write can serialise the channel: an attribute of None
\* (an enclosure without URL) raises TypeError
Serialisable(channel) ==
    \A i \in 1..Len(channel.items) : ~IsNone(channel.items[i].enclosure)

\* the API's values
EpisodeTitles == {<<"e">>}
AudioUrls == {None, Some("a.mp3"), Some("b.mp3")}
ImageUrls == {None, Some(""), Some("https://img/{width}")}
EpisodeNodes == {[title |-> t, url |-> u] : t \in EpisodeTitles, u \in AudioUrls}
EpisodeData(n) ==
    {[nodes |-> ns, image |-> im, path |-> "/sendung"] :
        ns \in SeqsUpTo(EpisodeNodes, n), im \in ImageUrls}

PsIdle ==
    /\ psPc = "idle" /\ ps = None /\ psData = None /\ psChannel = None

\* a program set as getProgramSets and getProgramSetsByID construct it
PsInit ==
    /\ psPc = "constructed"
    /\ \E id \in ProgramIds : ps = Some(AudiothekProgramSet(id, ProgramTitle(id), ""))
    /\ psData = None
    /\ psChannel = None

\* programSet.queryEpisodes(options), main line 228
PsQueryEpisodes ==
    /\ psPc = "constructed"
    /\ \E data \in EpisodeData(MaxItems) :
        /\ ps' = Some(QueryEpisodes(Get(ps), data))
        /\ psData' = Some(data)
    /\ psPc' = "queried"
    /\ UNCHANGED psChannel

\* programSet.toXML(), main line 231, reached when hasItems()
PsToXML ==
    /\ psPc = "queried"
    /\ HasItems(Get(ps))
    /\ psChannel' = Some(ToXML(Get(ps)))
    /\ psPc' = "serialised"
    /\ UNCHANGED <<ps, psData>>

-----------------------------------------------------------------------------
(* One run: main(getOptions(argv)) *)

MaxPage == 2        \* largest --pagination
MaxTotal == 3       \* largest totalCount the catalog reports
MaxCap == 2         \* largest --max-programs

LatestDefault == 10

ExistingDirs == {"rss"}

\* what the API answers to programSetsByIds: the requested ids it knows
RECURSIVE Restrict(_, _)
Restrict(s, S) ==
    IF s = <<>> THEN <<>>
    ELSE (IF Head(s) \in S THEN <<Head(s)>> ELSE <<>>) \o Restrict(Tail(s), S)
Range(s) == {s[i] : i \in 1..Len(s)}
ByIdNodes(ids) == {Restrict(ids, S) : S \in SUBSET Range(ids)}

\* what the API answers to a category query
CategoryNodes ==
    {<<>>,
     <<[id |-> 7, title |-> "Kinder"]>>,
     <<[id |-> 7, title |-> "Kinder"], [id |-> 9, title |-> "Krimi"]>>}

\* what the API answers to the episode query of a run: no episode, one
\* with an audio URL, one without
RunEpisodeData ==
    {[nodes |-> ns, image |-> im, path |-> "/sendung"] :
        ns \in {<<>>,
                <<[title |-> <<"e">>, url |-> Some("a.mp3")]>>,
                <<[title |-> <<"e">>, url |-> None]>>},
        im \in {Some(""), Some("https://img/{width}")}}

\* the page of the catalog at offset, first entries, of total records
PageEdges(total, first, off) ==
    LET n == IF total - off < 0 THEN 0
             ELSE IF total - off < first THEN total - off ELSE first
    IN  [i \in 1..n |-> off + i]

ArgvSet ==
    [programID : {None, Some(<<2, 1, 3>>)},
     categoryID : {None, Some(<<7>>)},
     categorySearch : {None, Some("Ki")},
     programSearch : {None, Some("news")},
     maxPrograms : {None} \cup {Some(m) : m \in 1..MaxCap},
     pagination : 1..MaxPage,
     latest : {LatestDefault},
     html : BOOLEAN,
     outputDir : {"rss", "nodir"},
     output : {DefaultOutput, <<"s", "_", "%", "d", ".", "r">>}]

\* getOptions' value checks, lines 304-314 (line 306 sets an attribute,
\* search, that nothing reads: programSearch stays as it was)
CheckedOptions(o) ==
    LET o1 == IF ~IsNone(o.programID)
                 /\ (~IsNone(o.programSearch) \/ ~IsNone(o.categoryID))
              THEN [o EXCEPT !.categoryID = None]
              ELSE o
    IN  [o1 EXCEPT !.output = CorrectOutput(o1.output)]

\* a mutant of ByProgramID: a category filter sends the run down the
\* category path
ByProgramIDUnlessCategory(o) ==
    ~IsNone(o.programID) /\ IsNone(o.categorySearch)

\* queryContent, line 205
ByProgramID(o) == ~IsNone(o.programID)

\* ",".join(parts)
RECURSIVE Join(_, _)
Join(parts, sep) ==
    IF parts = <<>> THEN <<>>
    ELSE IF Len(parts) = 1 THEN parts[1]
    ELSE parts[1] \o sep \o Join(Tail(parts), sep)

\* '"%s"' % str(x)
Quoted(x) == PyFormat(<<"\"", "%", "s", "\"">>, <<StrArg(IntStr(x))>>).out

CategoryId(cat) == cat.id

\* getProgramSets, lines 164-172: the filter clause, or the exception
GetProgramSetsFilter(categoryIDs, programSearch) ==
    LET membership ==
            IF Len(categoryIDs) > 0
            THEN PyFormat(<<"editorialCategoryId:{in:[]}">>,
                          <<StrArg(Join(MapSeq(Quoted, categoryIDs), <<",">>))>>)
            ELSE [ok |-> TRUE, out |-> <<>>]
        title ==
            IF ~IsNone(programSearch)
            THEN PyFormat(<<"title:{likeInsensitive:\"", "%", "%", "%", "s", "%", "%", "\"}">>,
                          <<StrArg(<<Get(programSearch)>>)>>)
            ELSE [ok |-> TRUE, out |-> <<>>]
        filters ==
            (IF Len(categoryIDs) > 0 THEN <<membership.out>> ELSE <<>>)
            \o (IF ~IsNone(programSearch) THEN <<title.out>> ELSE <<>>)
    IN  IF ~membership.ok THEN [ok |-> FALSE, out |-> <<>>, at |-> "TypeError:167"]
        ELSE IF Len(filters) > 0
        THEN [ok |-> TRUE,
              out |-> PyFormat(<<"filter:{", "%", "s", "},">>,
                               <<StrArg(Join(filters, <<",">>))>>).out,
              at |-> ""]
        ELSE [ok |-> TRUE, out |-> <<>>, at |-> ""]

\* getProgramSets, line 175: the query of one page
ProgramSetsQuery(filterClause, first, off) ==
    PyFormat(<<"programSets(", "%", "s", ",", "%", "s",
               ",orderBy:LAST_ITEM_ADDED_DESC){edges{node{title, id, sharingUrl, description, synopsis}}, totalCount}">>,
             <<StrArg(filterClause),
               StrArg(PyFormat(<<"first:", "%", "d", ",offset:", "%", "d">>,
                               <<IntArg(first), IntArg(off)>>).out)>>).out

\* getProgramSets, line 174: the condition of the while loop
MorePages(total, off, pagination) ==
    total < 0 \/ off + pagination <= total

NewProgramSet(id) == AudiothekProgramSet(id, ProgramTitle(id), "")

\* main, line 222
Limit(o) == IF IsNone(o.maxPrograms) THEN -1 ELSE Get(o.maxPrograms)

\* a mutant of Stop: the cap is checked before count is raised
StopLate(limit, n) == limit > 0 /\ n = limit + 1

\* main, lines 242-243, with count already raised
Stop(limit, n) == limit > 0 /\ n = limit

AfterSelection(sets) == IF sets = <<>> THEN "html" ELSE "loop"

RunInit ==
    /\ pc = "getOptions"
    /\ exc = ""
    /\ argv \in ArgvSet
    /\ options = argv
    /\ queries = <<>>
    /\ categories = <<>>
    /\ filter = <<>>
    /\ totalCount = -1
    /\ offset = 0
    /\ programSets = <<>>
    /\ idx = 1
    /\ count = 0
    /\ jinjaVars = <<>>
    /\ files = {}
    /\ htmlIndex = None

\* getOptions, lines 298-316
GetOptions ==
    /\ pc = "getOptions"
    /\ IF options.outputDir \notin ExistingDirs
       THEN /\ pc' = "exit"
            /\ UNCHANGED options
       ELSE /\ pc' = "main"
            /\ options' = CheckedOptions(options)
    /\ UNCHANGED <<exc, argv, queries, categories, filter, totalCount, offset,
                   programSets, idx, count, jinjaVars, files, htmlIndex>>

\* queryContent's first branch: getProgramSetsByID
GetProgramSetsByID ==
    /\ pc = "main"
    /\ ByProgramID(options)
    /\ \E nodes \in ByIdNodes(Get(options.programID)) :
        /\ queries' = Append(queries, [op |-> "programSetsByIds",
                                       ids |-> Get(options.programID),
                                       nodes |-> nodes])
        /\ programSets' = MapSeq(NewProgramSet, nodes)
        /\ pc' = AfterSelection(nodes)
    /\ UNCHANGED <<exc, argv, options, categories, filter, totalCount, offset,
                   idx, count, jinjaVars, files, htmlIndex>>

\* queryContent's second branch, first call: getCategories
GetCategories ==
    /\ pc = "main"
    /\ ~ByProgramID(options)
    /\ IF IsNone(options.categoryID) /\ IsNone(options.categorySearch)
       THEN /\ categories' = <<>>
            /\ UNCHANGED queries
       ELSE \E nodes \in CategoryNodes :
            /\ queries' = Append(queries,
                    IF ~IsNone(options.categoryID)
                    THEN [op |-> "editorialCategoriesByIDs",
                          ids |-> Get(options.categoryID), nodes |-> nodes]
                    ELSE [op |-> "editorialCategories",
                          includes |-> Get(options.categorySearch), nodes |-> nodes])
            /\ categories' = nodes
    /\ pc' = "getProgramSets"
    /\ UNCHANGED <<exc, argv, options, filter, totalCount, offset,
                   programSets, idx, count, jinjaVars, files, htmlIndex>>

\* getProgramSets, lines 163-173
BuildFilter ==
    /\ pc = "getProgramSets"
    /\ LET f == GetProgramSetsFilter(MapSeq(CategoryId, categories), options.programSearch)
       IN  IF f.ok
           THEN /\ filter' = f.out
                /\ pc' = "paginate"
                /\ exc' = exc
           ELSE /\ filter' = filter
                /\ pc' = "error"
                /\ exc' = f.at
    /\ offset' = 0
    /\ totalCount' = -1
    /\ UNCHANGED <<argv, options, queries, categories, programSets, idx, count,
                   jinjaVars, files, htmlIndex>>

\* getProgramSets, lines 174-183: one turn of the while loop, and the
\* return when the condition fails afterwards.  The catalog holds as many
\* records as the first page reports.
FetchPage ==
    /\ pc = "paginate"
    /\ MorePages(totalCount, offset, options.pagination)
    /\ \E total \in IF totalCount < 0 THEN 0..MaxTotal ELSE {totalCount} :
        LET edges == PageEdges(total, options.pagination, offset)
            sets == programSets \o MapSeq(NewProgramSet, edges)
        IN  /\ queries' = Append(queries,
                    [op |-> "programSets",
                     query |-> ProgramSetsQuery(filter, options.pagination, offset),
                     first |-> options.pagination,
                     offset |-> offset,
                     nodes |-> edges])
            /\ totalCount' = total
            /\ programSets' = sets
            /\ offset' = offset + options.pagination
            /\ pc' = IF MorePages(total, offset + options.pagination, options.pagination)
                     THEN "paginate"
                     ELSE AfterSelection(sets)
    /\ UNCHANGED <<exc, argv, options, categories, filter, idx, count,
                   jinjaVars, files, htmlIndex>>

\* main, lines 227-247: one turn of the for loop (the sleep of line 247
\* changes no state)
ProcessProgramSet ==
    /\ pc = "loop"
    /\ idx <= Len(programSets)
    /\ \E data \in RunEpisodeData :
        LET programSet == QueryEpisodes(programSets[idx], data)
            channel == ToXML(programSet)
            outputFileName == OutputFileName(options.output, programSet.id)
            fails == HasItems(programSet)
                     /\ (~outputFileName.ok \/ ~Serialisable(channel))
            writes == HasItems(programSet) /\ ~fails
            n == count + 1
        IN  /\ queries' = Append(queries, [op |-> "programSet",
                                           id |-> programSet.id,
                                           first |-> options.latest,
                                           nodes |-> data.nodes])
            /\ IF fails
               THEN /\ programSets' = [programSets EXCEPT ![idx] = programSet]
                    /\ pc' = "error"
                    /\ exc' = IF ~outputFileName.ok THEN "TypeError:234" ELSE "TypeError:236"
                    /\ UNCHANGED <<idx, count, jinjaVars, files>>
               ELSE /\ programSets' =
                        [programSets EXCEPT ![idx] =
                            IF writes
                            THEN [programSet EXCEPT
                                    !.rssPath = Some(<<"rss/">> \o outputFileName.out),
                                    !.items = None]
                            ELSE programSet]
                    /\ files' =
                        IF writes
                        THEN {f \in files : f.path # <<"rss/">> \o outputFileName.out}
                             \cup {[path |-> <<"rss/">> \o outputFileName.out,
                                    rss |-> channel]}
                        ELSE files
                    /\ jinjaVars' =
                        IF writes
                        THEN Append(jinjaVars,
                                    [path |-> <<"../", "rss/">> \o outputFileName.out,
                                     title |-> programSet.title])
                        ELSE jinjaVars
                    /\ count' = n
                    /\ idx' = idx + 1
                    /\ pc' = IF Stop(Limit(options), n) \/ idx = Len(programSets)
                             THEN "html" ELSE "loop"
                    /\ exc' = exc
    /\ UNCHANGED <<argv, options, categories, filter, totalCount, offset, htmlIndex>>

\* str.upper() of one character of the titles' alphabet
Upper(c) ==
    CASE c = "a" -> "A" [] c = "b" -> "B" [] c = "p" -> "P" [] OTHER -> c

\* the code point of a character of the titles' alphabet
Ord(c) ==
    CASE c = "&" -> 38 [] c = "<" -> 60 [] c = "A" -> 65 [] c = "B" -> 66
      [] c = "P" -> 80 [] c = "a" -> 97 [] c = "b" -> 98 [] c = "p" -> 112
      [] c = ";" -> 59 [] c = "l" -> 108 [] c = "m" -> 109 [] c = "t" -> 116
      [] c = "0" -> 48 [] c = "1" -> 49 [] c = "2" -> 50 [] c = "3" -> 51
      [] c = "4" -> 52 [] c = "5" -> 53 [] c = "6" -> 54 [] c = "7" -> 55
      [] c = "8" -> 56 [] c = "9" -> 57

\* a < b for two str
RECURSIVE StrLess(_, _)
StrLess(a, b) ==
    IF b = <<>> THEN FALSE
    ELSE IF a = <<>> THEN TRUE
    ELSE IF Head(a) # Head(b) THEN Ord(Head(a)) < Ord(Head(b))
    ELSE StrLess(Tail(a), Tail(b))

\* normTitle[:1].upper()
InitChar(normTitle) == IF normTitle = <<>> THEN <<>> ELSE <<Upper(normTitle[1])>>

\* list.sort(key=title), stable
RECURSIVE SortByTitle(_)
SortByTitle(s) ==
    IF s = <<>> THEN <<>>
    ELSE LET rest == SortByTitle(UpTo(s, Len(s) - 1))
             e == s[Len(s)]
             k == Cardinality({i \in 1..Len(rest) : ~StrLess(e.title, rest[i].title)})
         IN  UpTo(rest, k) \o <<e>> \o From(rest, k)

\* the keys of a set of str, ascending
RECURSIVE SortedKeys(_)
SortedKeys(S) ==
    IF S = {} THEN <<>>
    ELSE LET least == CHOOSE k \in S : \A j \in S : ~StrLess(j, k)
         IN  <<least>> \o SortedKeys(S \ {least})

\* main, lines 251-264: orderedData and letters
OrderedData(vars_) ==
    LET keys == {InitChar(vars_[i].title) : i \in 1..Len(vars_)}
        group(k) == SortByTitle(Restrict(vars_, {e \in Range(vars_) : InitChar(e.title) = k}))
        escaped == SortedKeys({HtmlEscape(k) : k \in keys})
        keyOf(e) == CHOOSE k \in keys : HtmlEscape(k) = e
    IN  [orderedData |-> [i \in 1..Len(escaped) |->
                            [letter |-> escaped[i], programSets |-> group(keyOf(escaped[i]))]],
         letters |-> [i \in 1..Len(escaped) |->
                            [anchor |-> <<"#">> \o escaped[i], letter |-> escaped[i]]]]

\* main, lines 249-281
WriteHtml ==
    /\ pc = "html"
    /\ htmlIndex' = IF options.html THEN Some(OrderedData(jinjaVars)) ELSE None
    /\ pc' = "done"
    /\ UNCHANGED <<exc, argv, options, queries, categories, filter, totalCount,
                   offset, programSets, idx, count, jinjaVars, files>>

-----------------------------------------------------------------------------
vars == <<tplVars, escVars, psVars, runVars>>

RunIdle ==
    /\ pc = "idle" /\ exc = "" /\ argv = None /\ options = None
    /\ queries = <<>> /\ categories = <<>> /\ filter = <<>>
    /\ totalCount = -1 /\ offset = 0 /\ programSets = <<>>
    /\ idx = 0 /\ count = 0 /\ jinjaVars = <<>> /\ files = {}
    /\ htmlIndex = None

SpecOutputInit == TplInit /\ EscIdle /\ PsIdle /\ RunIdle
SpecOutputNext ==
    \/ TplGetOptions /\ UNCHANGED <<escVars, psVars, runVars>>
    \/ TplFill /\ UNCHANGED <<escVars, psVars, runVars>>
SpecOutput == SpecOutputInit /\ [][SpecOutputNext]_vars

SpecEscapeInit == EscInit /\ TplIdle /\ PsIdle /\ RunIdle
SpecEscapeNext ==
    \/ EscToXML /\ UNCHANGED <<tplVars, psVars, runVars>>
    \/ EscWriteRSS /\ UNCHANGED <<tplVars, psVars, runVars>>
    \/ EscParse /\ UNCHANGED <<tplVars, psVars, runVars>>
SpecEscape == SpecEscapeInit /\ [][SpecEscapeNext]_vars

SpecProgramSetInit == PsInit /\ TplIdle /\ EscIdle /\ RunIdle
SpecProgramSetNext ==
    \/ PsQueryEpisodes /\ UNCHANGED <<tplVars, escVars, runVars>>
    \/ PsToXML /\ UNCHANGED <<tplVars, escVars, runVars>>
SpecProgramSet == SpecProgramSetInit /\ [][SpecProgramSetNext]_vars

Init == RunInit /\ TplIdle /\ EscIdle /\ PsIdle
Next ==
    \/ GetOptions /\ UNCHANGED <<tplVars, escVars, psVars>>
    \/ GetProgramSetsByID /\ UNCHANGED <<tplVars, escVars, psVars>>
    \/ GetCategories /\ UNCHANGED <<tplVars, escVars, psVars>>
    \/ BuildFilter /\ UNCHANGED <<tplVars, escVars, psVars>>
    \/ FetchPage /\ UNCHANGED <<tplVars, escVars, psVars>>
    \/ ProcessProgramSet /\ UNCHANGED <<tplVars, escVars, psVars>>
    \/ WriteHtml /\ UNCHANGED <<tplVars, escVars, psVars>>
Spec == Init /\ [][Next]_vars

-----------------------------------------------------------------------------
(* Properties *)

IsPageQuery(q) == q.op = "programSets"
IsEpisodeQuery(q) == q.op = "programSet"
IsByIdQuery(q) == q.op = "programSetsByIds"
IsCategoryQuery(q) == q.op \in {"editorialCategoriesByIDs", "editorialCategories"}
PageQueries == SelectSeq(queries, IsPageQuery)
EpisodeQueries == SelectSeq(queries, IsEpisodeQuery)
ByIdQueries == SelectSeq(queries, IsByIdQuery)
CategoryQueries == SelectSeq(queries, IsCategoryQuery)

CeilDiv(a, b) == (a + b - 1) \div b
Min(a, b) == IF a < b THEN a ELSE b
Max(a, b) == IF a < b THEN b ELSE a

\* getProgramSets has returned
PaginationDone == totalCount >= 0 /\ pc \in {"loop", "html", "done", "error"}

\* C1: once getProgramSets has returned, with totalCount reported by the
\* first page and page size p, it has issued ceil(totalCount / p) page
\* requests (the first page, which reports the total, included even when
\* the total is 0), at offsets 0, p, 2p, ... in turn, and every record
\* index below totalCount lies in a requested page.
C1_PaginationCoversTotal ==
    PaginationDone =>
        LET p == options.pagination
            pages == PageQueries
        IN  /\ Len(pages) = Max(1, CeilDiv(totalCount, p))
            /\ \A k \in 1..Len(pages) : pages[k].offset = (k - 1) * p
            /\ \A r \in 0..(totalCount - 1) :
                 \E k \in 1..Len(pages) :
                    pages[k].offset <= r /\ r < pages[k].offset + pages[k].first

OtherFilterGiven(o) ==
    ~IsNone(o.categoryID) \/ ~IsNone(o.categorySearch) \/ ~IsNone(o.programSearch)

SelectionDone == pc \in {"loop", "html", "done", "error"}

ProgramSetId(programSet) == programSet.id

\* C2: in a run given a program-ID list together with a category filter or
\* a program search term, no category query and no paginated programSets
\* query is ever issued, at most one programSetsByIds query is, and once
\* the selection is done exactly one was and the program sets main
\* iterates are the nodes it returned, in order.
C2_ProgramIDPrecedence ==
    (pc # "idle" /\ ~IsNone(argv.programID) /\ OtherFilterGiven(argv)) =>
        /\ CategoryQueries = <<>>
        /\ PageQueries = <<>>
        /\ Len(ByIdQueries) <= 1
        /\ SelectionDone =>
              /\ Len(ByIdQueries) = 1
              /\ ByIdQueries[1].ids = Get(argv.programID)
              /\ MapSeq(ProgramSetId, programSets) = ByIdQueries[1].nodes
              /\ \A i \in 1..Len(EpisodeQueries) :
                    EpisodeQueries[i].id \in Range(ByIdQueries[1].nodes)

\* C2's case: a run with program ids, category ids, a category search and
\* a program search that ended, having processed the two program sets the
\* lookup returned of the three asked for
C2_Witness ==
    /\ pc = "done"
    /\ ~IsNone(argv.programID)
    /\ ~IsNone(argv.categorySearch)
    /\ ~IsNone(argv.categoryID)
    /\ ~IsNone(argv.programSearch)
    /\ Len(programSets) = 2
    /\ Len(EpisodeQueries) = 2

\* C3: with a cap m >= 1 and n candidate program sets, the episode queries
\* issued are at all times those of the first k program sets in list order
\* with k <= min(m, n), every feed file written belongs to one of the
\* first min(m, n), and when the loop has ended k = min(m, n) (a program
\* set without output counts like any other).
C3_MaxProgramsCap ==
    (SelectionDone /\ ~IsNone(argv.maxPrograms)) =>
        LET cap == Min(Get(argv.maxPrograms), Len(programSets))
            asked == EpisodeQueries
        IN  /\ Len(asked) <= cap
            /\ \A i \in 1..Len(asked) : asked[i].id = programSets[i].id
            /\ \A i \in 1..Len(programSets) :
                  ~IsNone(programSets[i].rssPath) => i <= cap
            /\ \A f \in files :
                  \E i \in 1..cap : programSets[i].rssPath = Some(f.path)
            /\ pc \in {"html", "done"} => Len(asked) = cap

\* C3's case: cap 2, three candidates, the first without output, the
\* second written, the third never asked for
C3_Witness ==
    /\ pc = "done"
    /\ argv.maxPrograms = Some(2)
    /\ Len(programSets) = 3
    /\ Len(EpisodeQueries) = 2
    /\ IsNone(programSets[1].rssPath)
    /\ ~IsNone(programSets[2].rssPath)
    /\ Cardinality(files) = 1

HasRssPath(programSet) == ~IsNone(programSet.rssPath)

\* the entries of the index the template is rendered with
RECURSIVE IndexEntries(_)
IndexEntries(groups) ==
    IF groups = <<>> THEN {} ELSE Range(Head(groups).programSets) \cup IndexEntries(Tail(groups))

\* C4: a program set whose episode query returned no item has rssPath
\* unset, no feed file and no jinjaVars entry; jinjaVars holds one entry
\* per program set whose feed file was written, in processing order, the
\* files are those program sets' files, and the HTML index is made of
\* jinjaVars' entries.
C4_EmptyShowSuppressed ==
    pc # "idle" =>
        LET asked == EpisodeQueries
            written == SelectSeq(programSets, HasRssPath)
        IN  /\ \A i \in 1..Len(asked) :
                  asked[i].nodes = <<>> =>
                      /\ IsNone(programSets[i].rssPath)
                      /\ \A f \in files : f.rss.title # HtmlEscape(programSets[i].title)
                      /\ \A j \in 1..Len(jinjaVars) : jinjaVars[j].title # programSets[i].title
            /\ Len(jinjaVars) = Len(written)
            /\ \A j \in 1..Len(written) :
                  /\ jinjaVars[j].title = written[j].title
                  /\ jinjaVars[j].path = <<"../">> \o Get(written[j].rssPath)
            /\ {f.path : f \in files} = {Get(written[j].rssPath) : j \in 1..Len(written)}
            /\ ~IsNone(htmlIndex) =>
                  IndexEntries(Get(htmlIndex).orderedData) = Range(jinjaVars)

\* C4's case: a finished run with an index, in which the first program set
\* had no episode and the second was written
C4_Witness ==
    /\ pc = "done"
    /\ ~IsNone(htmlIndex)
    /\ Len(EpisodeQueries) >= 2
    /\ EpisodeQueries[1].nodes = <<>>
    /\ EpisodeQueries[2].nodes # <<>>
    /\ Len(jinjaVars) = 1
    /\ Cardinality(files) = 1

\* the audio URLs of the nodes that have one, in order
RECURSIVE UrlsPresent(_)
UrlsPresent(nodes) ==
    IF nodes = <<>> THEN <<>>
    ELSE (IF IsNone(Head(nodes).url) THEN <<>> ELSE <<Head(nodes).url>>)
         \o UrlsPresent(Tail(nodes))

ItemEnclosure(item) == item.enclosure

\* C5: after queryEpisodes every node of the response is an item of the
\* program set, in order, also one whose download URL is null (it is
\* invalid and hasItems counts it); toXML's channel holds one item element
\* per item with a download URL, in insertion order, none for the others,
\* and can be serialised.
C5_ValidityFilter ==
    /\ psPc \in {"queried", "serialised"} =>
          LET items == Get(Get(ps).items)
              nodes == Get(psData).nodes
          IN  /\ Len(items) = Len(nodes)
              /\ \A i \in 1..Len(nodes) :
                    /\ items[i].downloadUrl = nodes[i].url
                    /\ items[i].valid <=> ~IsNone(nodes[i].url)
              /\ HasItems(Get(ps)) <=> Len(nodes) > 0
    /\ psPc = "serialised" =>
          /\ MapSeq(ItemEnclosure, Get(psChannel).items) = UrlsPresent(Get(psData).nodes)
          /\ Serialisable(Get(psChannel))

\* C5's case: a feed serialised from three items, the middle one without
\* download URL, the other two distinct
C5_Witness ==
    /\ psPc = "serialised"
    /\ Len(Get(psData).nodes) = 3
    /\ Get(psData).nodes[1].url = Some("a.mp3")
    /\ IsNone(Get(psData).nodes[2].url)
    /\ Get(psData).nodes[3].url = Some("b.mp3")
    /\ Len(Get(psChannel).items) = 2

\* C6: a title or description written through toXML and writeRSS and read
\* back by an XML parser is the original text.
C6_EscapeRoundTrip ==
    escPc = "parsed" => escParsed = escText

\* the number of times sub occurs in s
Occurrences(s, sub) ==
    Cardinality({i \in 1..(Len(s) - Len(sub) + 1) : SubSeq(s, i, i + Len(sub) - 1) = sub})

\* out is raw with one %d put right before raw's last ".", or at its end
\* when raw has no "."
PlaceholderInserted(raw, out) ==
    \E i \in 0..Len(raw) :
        /\ out = UpTo(raw, i) \o Placeholder \o From(raw, i)
        /\ IF \E j \in 1..Len(raw) : raw[j] = "."
           THEN /\ i < Len(raw)
                /\ raw[i + 1] = "."
                /\ \A j \in (i + 2)..Len(raw) : raw[j] # "."
           ELSE i = Len(raw)

\* C7: after getOptions a template that held %d is unchanged, one that did
\* not has one %d inserted right before its last "." (appended when it has
\* none), and a template that held at most one %d holds exactly one.
C7_TemplateCorrection ==
    tplPc \in {"checked", "filled", "failed"} =>
        /\ Contains(tplRaw, Placeholder) => tplOutput = tplRaw
        /\ ~Contains(tplRaw, Placeholder) => PlaceholderInserted(tplRaw, tplOutput)
        /\ Occurrences(tplRaw, Placeholder) <= 1 => Occurrences(tplOutput, Placeholder) = 1

\* C7's case: a template without %d and with two "." has been corrected
C7_Witness ==
    /\ tplPc = "checked"
    /\ ~Contains(tplRaw, Placeholder)
    /\ Occurrences(tplRaw, <<".">>) = 2
    /\ tplRaw[1] = "."
    /\ tplOutput # tplRaw

\* a template whose only "%" is the one of a single %d
OnePlaceholderOnly(t) ==
    /\ Occurrences(t, <<"%">>) = 1
    /\ Occurrences(t, Placeholder) = 1

\* t with its %d replaced by the id and its %s by the empty string
RECURSIVE Filled(_, _)
Filled(t, id) ==
    IF t = <<>> THEN <<>>
    ELSE IF Len(t) >= 2 /\ UpTo(t, 2) = Placeholder THEN IntStr(id) \o Filled(From(t, 2), id)
    ELSE IF Len(t) >= 2 /\ UpTo(t, 2) = <<"%", "s">> THEN Filled(From(t, 2), id)
    ELSE <<Head(t)>> \o Filled(Tail(t), id)

\* C8: for the default template, a user template with one %d and an
\* auto-corrected template, main's filling of the template succeeds and
\* yields the template with the placeholder replaced by the program's id.
C8_TemplateFillSucceeds ==
    (/\ tplPc \in {"filled", "failed"}
     /\ \/ tplRaw = DefaultOutput
        \/ OnePlaceholderOnly(tplRaw)
        \/ Occurrences(tplRaw, <<"%">>) = 0) =>
        /\ tplPc = "filled"
        /\ tplName = Filled(tplOutput, tplId)

\* C9: the imageUrl of a program set is never the empty string, after
\* construction and after queryEpisodes, and the channel's image block,
\* when toXML emits one, carries a non-empty URL.
C9_ImageUrlNeverEmpty ==
    /\ psPc # "idle" => Get(ps).imageUrl # Some("")
    /\ psPc = "serialised" =>
          \A im \in Get(psChannel).image : im.url # ""

\* the filter clause the claim describes: the membership test naming the
\* category ids, and the title match, joined, within filter:{...},
FilterClause(categoryIDs, programSearch) ==
    LET membership == <<"editorialCategoryId:{in:[">>
                      \o Join(MapSeq(Quoted, categoryIDs), <<",">>) \o <<"]}">>
        title == <<"title:{likeInsensitive:\"", "%", Get(programSearch), "%", "\"}">>
        filters == (IF categoryIDs # <<>> THEN <<membership>> ELSE <<>>)
                   \o (IF ~IsNone(programSearch) THEN <<title>> ELSE <<>>)
    IN  IF filters = <<>> THEN <<>>
        ELSE <<"filter:{">> \o Join(filters, <<",">>) \o <<"},">>

\* C10: getProgramSets builds its query without error; the filter clause
\* is the membership test naming the resolved category ids and, when a
\* search term is given, the title match, it is omitted when there is
\* neither, and each page's query is that clause followed by the
\* first/offset clause.
C10_FilterClauseBuilt ==
    (pc \in {"paginate", "loop", "html", "done", "error"} /\ ~ByProgramID(options)) =>
        /\ exc # "TypeError:167"
        /\ filter = FilterClause(MapSeq(CategoryId, categories), options.programSearch)
        /\ \A k \in 1..Len(PageQueries) :
              PageQueries[k].query =
                  <<"programSets(">> \o filter
                  \o <<",", "first:">> \o IntStr(PageQueries[k].first)
                  \o <<",offset:">> \o IntStr(PageQueries[k].offset)
                  \o <<",orderBy:LAST_ITEM_ADDED_DESC){edges{node{title, id, sharingUrl, description, synopsis}}, totalCount}">>

====
